---- MODULE Spec2Model ----
(***************************************************************************)
(* Model of pagmo::fork_island::run_evolve                                 *)
(* (include/pagmo/islands/fork_island.hpp).                                *)
(*                                                                         *)
(* Two processes are modelled, the parent (the caller of run_evolve) and   *)
(* the forked child.  Each statement of run_evolve that performs an OS     *)
(* call or changes the message / the island is one action.  The OS is the  *)
(* environment: every call may succeed or, within a budget of MaxFaults    *)
(* injected faults, fail; a write() may also accept fewer bytes than       *)
(* requested.  Bytes are natural numbers; the pipe is a FIFO of bytes.     *)
(***************************************************************************)
EXTENDS Naturals, Integers, Sequences, FiniteSets, TLC

----------------------------------------------------------------------------
(* Bounds of the model.                                                    *)

\* size of the char buffer[...] used by both read and write loops
\* (1024 in the source, scaled down)
BufSize == 6

\* capacity of the kernel pipe buffer, in chunks (small enough for a
\* long message to fill the pipe and block the writer)
PipeChunks == 1

\* number of OS faults the environment injects in one run
MaxFaults == 2

PipeCap == PipeChunks * BufSize

----------------------------------------------------------------------------
(* Inputs.                                                                 *)

\* serialized algorithm states the island may hold at the call
Algos == { <<0>>, <<1>> }

\* serialized population states the island may hold at the call
Pops == { <<>>, <<1>>, <<1, 2, 1, 1, 2, 2, 1>> }

\* texts carried by a std::exception thrown by the task
Msgs == { <<>>, <<7>>, <<1, 0>> }

\* what algo.evolve(pop) does in the child
TaskKinds == { "ok", "throw", "throw_other", "crash" }

----------------------------------------------------------------------------
(* Pure functions.                                                         *)

Min(a, b) == IF a < b THEN a ELSE b

Take(s, n) == SubSeq(s, 1, Min(n, Len(s)))

Drop(s, n) == SubSeq(s, Min(n, Len(s)) + 1, Len(s))

\* algorithm{} : the default-constructed algorithm
DefaultAlgo == << >>

\* population{} : the default-constructed population
DefaultPop == << >>

\* message_t m; value-initialised tuple
DefaultMsg == [status |-> 0, err |-> << >>, algo |-> DefaultAlgo, pop |-> DefaultPop]

\* the algorithm object after algo.evolve(): its internal counter advanced
EvolveAlgo(a) == [i \in 1..Len(a) |-> a[i] + 1]

\* the population returned by algo.evolve(pop)
EvolvePop(p) == [i \in 1..Len(p) |-> 3 - p[i]]

\* oarchive(ms): binary archive, every variable-length field is preceded
\* by its length
Encode(ms) ==
    <<ms.status, Len(ms.err)>> \o ms.err
        \o <<Len(ms.algo)>> \o ms.algo
        \o <<Len(ms.pop)>> \o ms.pop

\* iarchive(m) succeeds iff the stream holds all the bytes the length
\* fields announce; bytes after the message are left unread
DecodeOk(b) ==
    /\ Len(b) >= 2
    /\ LET el == b[2] IN
       /\ Len(b) >= 3 + el
       /\ LET al == b[3 + el] IN
          /\ Len(b) >= 4 + el + al
          /\ LET pl == b[4 + el + al] IN
             Len(b) >= 4 + el + al + pl

\* iarchive(m): the message read from the front of the stream
Decode(b) ==
    LET el == b[2]
        al == b[3 + el]
        pl == b[4 + el + al]
    IN [status |-> b[1],
        err    |-> SubSeq(b, 3, 2 + el),
        algo   |-> SubSeq(b, 4 + el, 3 + el + al),
        pop    |-> SubSeq(b, 5 + el + al, 4 + el + al + pl)]

\* numeric stand-ins for the text built by raise_errno(fname)
FnCode(fname) ==
    CASE fname = "pipe"  -> 11
      [] fname = "close" -> 12
      [] fname = "fork"  -> 13
      [] fname = "read"  -> 14
      [] fname = "write" -> 15

\* e.what() of the std::runtime_error thrown by raise_errno(fname)
ErrnoText(fname) == <<FnCode(fname)>>

\* the exception raise_errno(fname) throws, as seen by the caller
SyscallFailure(fname) == [kind |-> "SyscallFailure", call |-> fname, what |-> ErrnoText(fname)]

\* the exception cereal throws when the stream is too short
DecodeFailure == [kind |-> "DecodeFailure", call |-> "", what |-> << >>]

\* stand-in for the fixed text "The run_evolve() method of fork_island
\* raised an error in the child process. ..."
ChildErrPrefix == 99

\* the std::runtime_error thrown when the decoded status is non-zero
ChildTaskFailed(text) ==
    [kind |-> "ChildTaskFailed", call |-> "", what |-> <<ChildErrPrefix>> \o text]

NoError == [kind |-> "none", call |-> "", what |-> << >>]

\* outcomes of close(fd): return value and whether the descriptor is still
\* open afterwards.  After a failed close the state of the descriptor is
\* unspecified; closing a descriptor that is not open fails (EBADF).
CloseOutcomes(fdOpen) ==
    IF fdOpen
    THEN { [ret |-> 0, open |-> FALSE, fault |-> FALSE],
           [ret |-> -1, open |-> TRUE, fault |-> TRUE],
           [ret |-> -1, open |-> FALSE, fault |-> TRUE] }
    ELSE { [ret |-> -1, open |-> FALSE, fault |-> FALSE] }

\* pipe_t() : both flags true, both descriptors open
NewPipe == [r_status |-> TRUE, w_status |-> TRUE, rfd |-> TRUE, wfd |-> TRUE]

\* a process that has terminated holds no descriptor
NoPipe == [r_status |-> FALSE, w_status |-> FALSE, rfd |-> FALSE, wfd |-> FALSE]

----------------------------------------------------------------------------
(* pipe_t : each close tries the OS call only if the flag says open, and   *)
(* clears the flag only when the call succeeded.  The result is the set of *)
(* possible outcomes: the pipe object afterwards, whether raise_errno      *)
(* threw, and whether the environment injected a fault.                    *)

\* close_r with the flag cleared whatever close() returned
close_r_flag_first(p) ==
    IF p.r_status
    THEN { [p |-> [p EXCEPT !.rfd = (o.ret # 0 /\ o.open), !.r_status = FALSE],
            threw |-> (o.ret # 0), fault |-> o.fault] : o \in CloseOutcomes(p.rfd) }
    ELSE { [p |-> p, threw |-> FALSE, fault |-> FALSE] }

close_r(p) ==
    IF p.r_status
    THEN { [p |-> IF o.ret = 0 THEN [p EXCEPT !.rfd = FALSE, !.r_status = FALSE]
                               ELSE [p EXCEPT !.rfd = o.open],
            threw |-> (o.ret # 0), fault |-> o.fault] : o \in CloseOutcomes(p.rfd) }
    ELSE { [p |-> p, threw |-> FALSE, fault |-> FALSE] }

\* close_w without the test of the flag: close() is called every time
close_w_unguarded(p) ==
    { [p |-> IF o.ret = 0 THEN [p EXCEPT !.wfd = FALSE, !.w_status = FALSE]
                          ELSE [p EXCEPT !.wfd = o.open],
       threw |-> (o.ret # 0), fault |-> o.fault] : o \in CloseOutcomes(p.wfd) }

close_w(p) ==
    IF p.w_status
    THEN { [p |-> IF o.ret = 0 THEN [p EXCEPT !.wfd = FALSE, !.w_status = FALSE]
                               ELSE [p EXCEPT !.wfd = o.open],
            threw |-> (o.ret # 0), fault |-> o.fault] : o \in CloseOutcomes(p.wfd) }
    ELSE { [p |-> p, threw |-> FALSE, fault |-> FALSE] }

----------------------------------------------------------------------------
VARIABLES
    isl,        \* the island of the caller: [algo, pop]
    ppc,        \* parent: position in run_evolve
    perr,       \* parent: the exception in flight / raised to the caller
    pp,         \* parent: its pipe_t p (flags) and its descriptors
    pm,         \* parent: message_t m
    ss,         \* parent: bytes accumulated in the stringstream
    cpc,        \* child: position in run_evolve
    cp,         \* child: its copy of pipe_t p and its descriptors
    cm,         \* child: its copy of message_t m
    cisl,       \* child: its copy of the island
    cbuf,       \* child: bytes of the stringstream not yet read by ss.read
    cexc,       \* child: e.what() of the exception being handled
    pipe,       \* kernel: bytes written and not yet read
    sigterm,    \* kernel: SIGTERM sent to the child and not yet delivered
    faults,     \* environment: number of faults injected so far
    oserr,      \* history: the OS calls that did not fully succeed
    extClosed,  \* history: an external actor closed the parent's read end
    isl0,       \* history: the island when run_evolve was called
    task,       \* history: what evolve() did, [kind, msg]
    caught,     \* history: the exception the child caught first
    died,       \* history: why the child died without calling exit
    csent,      \* history: every byte the kernel accepted from the child
    cmsgs,      \* history: the messages handed to send_message
    nset,       \* history: number of set_algorithm/set_population calls
    kills       \* history: number of kill(child_pid, SIGTERM) calls

pvars == <<ppc, perr, pp, pm, ss>>
cvars == <<cpc, cp, cm, cisl, cbuf, cexc>>
hvars == <<isl0, kills, task, caught, died, csent, cmsgs, nset>>
vars == <<isl, ppc, perr, pp, pm, ss, cpc, cp, cm, cisl, cbuf, cexc,
          pipe, sigterm, faults, oserr, extClosed,
          isl0, kills, task, caught, died, csent, cmsgs, nset>>

ChildTerminal == {"exited0", "exited1", "dead"}
ChildAlive == cpc \notin ({"none"} \cup ChildTerminal)
ParentTerminal == {"returned", "raised", "exited"}

CanFault == faults < MaxFaults

Init ==
    /\ isl \in [algo : Algos, pop : Pops]
    /\ isl0 = isl
    /\ ppc = "pipe"
    /\ perr = NoError
    /\ pp = NoPipe
    /\ pm = DefaultMsg
    /\ ss = << >>
    /\ cpc = "none"
    /\ cp = NoPipe
    /\ cm = DefaultMsg
    /\ cisl = isl
    /\ cbuf = << >>
    /\ cexc = << >>
    /\ pipe = << >>
    /\ sigterm = FALSE
    /\ faults = 0
    /\ oserr = {}
    /\ extClosed = FALSE
    /\ task = [kind |-> "none", msg |-> << >>]
    /\ caught = [kind |-> "none", text |-> << >>, sent |-> 0]
    /\ died = "no"
    /\ csent = << >>
    /\ cmsgs = << >>
    /\ nset = 0
    /\ kills = 0

----------------------------------------------------------------------------
(* The parent.                                                             *)

\* pipe_t p; (the constructor)
P_pipe ==
    /\ ppc = "pipe"
    /\ \/ /\ pp' = NewPipe
          /\ ppc' = "fork"
          /\ UNCHANGED <<perr, faults, oserr>>
       \/ /\ CanFault
          /\ faults' = faults + 1
          /\ oserr' = oserr \cup {"p_pipe"}
          /\ perr' = SyscallFailure("pipe")
          /\ ppc' = "raised"
          /\ pp' = pp
    /\ UNCHANGED <<isl, pm, ss, cvars, pipe, sigterm, extClosed, hvars>>

\* fork() without the test for -1: the parent branch runs with no child
P_fork_unchecked ==
    /\ ppc = "fork"
    /\ \/ /\ ppc' = "close_w"
          /\ cpc' = "close_r"
          /\ cp' = pp
          /\ cm' = pm
          /\ cisl' = isl
          /\ UNCHANGED <<perr, faults, oserr>>
       \/ /\ CanFault
          /\ faults' = faults + 1
          /\ oserr' = oserr \cup {"p_fork"}
          /\ ppc' = "close_w"
          /\ UNCHANGED <<perr, cpc, cp, cm, cisl>>
    /\ UNCHANGED <<isl, pp, pm, ss, cbuf, cexc, pipe, sigterm, extClosed, hvars>>

\* auto child_pid = fork(); if (child_pid == -1) raise_errno("fork");
P_fork ==
    /\ ppc = "fork"
    /\ \/ /\ ppc' = "close_w"
          /\ cpc' = "close_r"
          /\ cp' = pp
          /\ cm' = pm
          /\ cisl' = isl
          /\ UNCHANGED <<perr, faults, oserr>>
       \/ /\ CanFault
          /\ faults' = faults + 1
          /\ oserr' = oserr \cup {"p_fork"}
          /\ perr' = SyscallFailure("fork")
          /\ ppc' = "dtor_r"
          /\ UNCHANGED <<cpc, cp, cm, cisl>>
    /\ UNCHANGED <<isl, pp, pm, ss, cbuf, cexc, pipe, sigterm, extClosed, hvars>>

\* the parent going on to read without closing its write end
P_close_w_skipped ==
    /\ ppc = "close_w"
    /\ ppc' = "read"
    /\ UNCHANGED <<isl, perr, pp, pm, ss, cvars, pipe, sigterm, faults, oserr, extClosed, hvars>>

\* p.close_w(); in the parent's try block
P_close_w ==
    /\ ppc = "close_w"
    /\ \E res \in close_w(pp) :
          /\ res.fault => CanFault
          /\ faults' = faults + (IF res.fault THEN 1 ELSE 0)
          /\ pp' = res.p
          /\ IF res.threw
             THEN /\ perr' = SyscallFailure("close")
                  /\ ppc' = "kill"
                  /\ oserr' = oserr \cup {"p_close_w"}
             ELSE /\ ppc' = "read"
                  /\ UNCHANGED <<perr, oserr>>
    /\ UNCHANGED <<isl, pm, ss, cvars, pipe, sigterm, extClosed, hvars>>

\* a single read in place of the loop: the first chunk is decoded
P_read_once ==
    /\ ppc = "read"
    /\ \/ /\ ~pp.rfd
          /\ perr' = SyscallFailure("read")
          /\ ppc' = "kill"
          /\ oserr' = oserr \cup {"p_read"}
          /\ UNCHANGED <<ss, pipe, faults>>
       \/ /\ pp.rfd
          /\ CanFault
          /\ faults' = faults + 1
          /\ perr' = SyscallFailure("read")
          /\ ppc' = "kill"
          /\ oserr' = oserr \cup {"p_read"}
          /\ UNCHANGED <<ss, pipe>>
       \/ /\ pp.rfd
          /\ pipe # << >>
          /\ \E k \in 1..Min(BufSize, Len(pipe)) :
                /\ ss' = ss \o Take(pipe, k)
                /\ pipe' = Drop(pipe, k)
          /\ ppc' = "decode"
          /\ UNCHANGED <<perr, faults, oserr>>
       \/ /\ pp.rfd
          /\ pipe = << >>
          /\ ~pp.wfd
          /\ ~cp.wfd
          /\ ppc' = "decode"
          /\ UNCHANGED <<ss, pipe, perr, faults, oserr>>
    /\ UNCHANGED <<isl, pp, pm, cvars, sigterm, extClosed, hvars>>

\* one iteration of while (true) { read(p.read, buffer, sizeof(buffer)); ... }
P_read ==
    /\ ppc = "read"
    /\ \/ \* read on a descriptor that is not open: EBADF
          /\ ~pp.rfd
          /\ perr' = SyscallFailure("read")
          /\ ppc' = "kill"
          /\ oserr' = oserr \cup {"p_read"}
          /\ UNCHANGED <<ss, pipe, faults>>
       \/ \* read fails for another reason (EINTR, EIO, ...)
          /\ pp.rfd
          /\ CanFault
          /\ faults' = faults + 1
          /\ perr' = SyscallFailure("read")
          /\ ppc' = "kill"
          /\ oserr' = oserr \cup {"p_read"}
          /\ UNCHANGED <<ss, pipe>>
       \/ \* some bytes are available: read returns between 1 and
          \* sizeof(buffer) of them
          /\ pp.rfd
          /\ pipe # << >>
          /\ \E k \in 1..Min(BufSize, Len(pipe)) :
                /\ ss' = ss \o Take(pipe, k)
                /\ pipe' = Drop(pipe, k)
          /\ UNCHANGED <<ppc, perr, faults, oserr>>
       \/ \* no byte is left and no process holds the write end: read
          \* returns 0, the loop is left
          /\ pp.rfd
          /\ pipe = << >>
          /\ ~pp.wfd
          /\ ~cp.wfd
          /\ ppc' = "decode"
          /\ UNCHANGED <<ss, pipe, perr, faults, oserr>>
    /\ UNCHANGED <<isl, pp, pm, cvars, sigterm, extClosed, hvars>>

\* the decode placed outside the try block: its failure unwinds at once
P_decode_unguarded ==
    /\ ppc = "decode"
    /\ IF DecodeOk(ss)
       THEN /\ pm' = Decode(ss)
            /\ ppc' = "close_r"
            /\ perr' = perr
       ELSE /\ perr' = DecodeFailure
            /\ ppc' = "dtor_r"
            /\ pm' = pm
    /\ UNCHANGED <<isl, pp, ss, cvars, pipe, sigterm, faults, oserr, extClosed, hvars>>

\* iarchive(m);
P_decode ==
    /\ ppc = "decode"
    /\ IF DecodeOk(ss)
       THEN /\ pm' = Decode(ss)
            /\ ppc' = "close_r"
            /\ perr' = perr
       ELSE /\ perr' = DecodeFailure
            /\ ppc' = "kill"
            /\ pm' = pm
    /\ UNCHANGED <<isl, pp, ss, cvars, pipe, sigterm, faults, oserr, extClosed, hvars>>

\* p.close_r(); in the parent's try block
P_close_r ==
    /\ ppc = "close_r"
    /\ \E res \in close_r(pp) :
          /\ res.fault => CanFault
          /\ faults' = faults + (IF res.fault THEN 1 ELSE 0)
          /\ pp' = res.p
          /\ IF res.threw
             THEN /\ perr' = SyscallFailure("close")
                  /\ ppc' = "kill"
                  /\ oserr' = oserr \cup {"p_close_r"}
             ELSE /\ ppc' = "check"
                  /\ UNCHANGED <<perr, oserr>>
    /\ UNCHANGED <<isl, pm, ss, cvars, pipe, sigterm, extClosed, hvars>>

\* catch (...) { if (kill(child_pid, SIGTERM) == -1 && errno != ESRCH)
\*                   std::exit(1);  throw; }
P_kill ==
    /\ ppc = "kill"
    /\ kills' = kills + 1
    /\ \/ \* kill returns 0, or -1 with ESRCH when the child is gone:
          \* the error is re-raised
          /\ sigterm' = (sigterm \/ ChildAlive)
          /\ ppc' = "dtor_r"
          /\ UNCHANGED <<pp, faults, oserr>>
       \/ \* kill fails for another reason: the parent exits
          /\ CanFault
          /\ faults' = faults + 1
          /\ oserr' = oserr \cup {"p_kill"}
          /\ ppc' = "exited"
          /\ pp' = [pp EXCEPT !.rfd = FALSE, !.wfd = FALSE]
          /\ sigterm' = sigterm
    /\ UNCHANGED <<isl, perr, pm, ss, cvars, pipe, extClosed,
                   isl0, task, caught, died, csent, cmsgs, nset>>

\* the result installed whatever the status, the error raised afterwards
P_check_after_install ==
    /\ ppc = "check"
    /\ perr' = (IF pm.status # 0 THEN ChildTaskFailed(pm.err) ELSE perr)
    /\ ppc' = "set_algorithm"
    /\ UNCHANGED <<isl, pp, pm, ss, cvars, pipe, sigterm, faults, oserr, extClosed, hvars>>

\* if (std::get<0>(m)) pagmo_throw(std::runtime_error, "..." + std::get<1>(m));
P_check ==
    /\ ppc = "check"
    /\ IF pm.status # 0
       THEN /\ perr' = ChildTaskFailed(pm.err)
            /\ ppc' = "dtor_r"
       ELSE /\ ppc' = "set_algorithm"
            /\ perr' = perr
    /\ UNCHANGED <<isl, pp, pm, ss, cvars, pipe, sigterm, faults, oserr, extClosed, hvars>>

\* isl.set_algorithm(std::move(std::get<2>(m)));
P_set_algorithm ==
    /\ ppc = "set_algorithm"
    /\ isl' = [isl EXCEPT !.algo = pm.algo]
    /\ nset' = nset + 1
    /\ ppc' = "set_population"
    /\ UNCHANGED <<perr, pp, pm, ss, cvars, pipe, sigterm, faults, oserr, extClosed,
                   isl0, kills, task, caught, died, csent, cmsgs>>

\* isl.set_population(std::move(std::get<3>(m)));
P_set_population ==
    /\ ppc = "set_population"
    /\ isl' = [isl EXCEPT !.pop = pm.pop]
    /\ nset' = nset + 1
    /\ ppc' = "dtor_r"
    /\ UNCHANGED <<perr, pp, pm, ss, cvars, pipe, sigterm, faults, oserr, extClosed,
                   isl0, kills, task, caught, died, csent, cmsgs>>

\* a destructor that swallows the error of close_r and goes on
P_dtor_r_swallow ==
    /\ ppc = "dtor_r"
    /\ \E res \in close_r(pp) :
          /\ res.fault => CanFault
          /\ faults' = faults + (IF res.fault THEN 1 ELSE 0)
          /\ ppc' = "dtor_w"
          /\ pp' = res.p
          /\ oserr' = (IF res.threw THEN oserr \cup {"p_dtor_r"} ELSE oserr)
    /\ UNCHANGED <<isl, perr, pm, ss, cvars, pipe, sigterm, extClosed, hvars>>

\* ~pipe_t(): try { close_r(); ... } catch (...) { std::exit(1); }
P_dtor_r ==
    /\ ppc = "dtor_r"
    /\ \E res \in close_r(pp) :
          /\ res.fault => CanFault
          /\ faults' = faults + (IF res.fault THEN 1 ELSE 0)
          /\ IF res.threw
             THEN /\ ppc' = "exited"
                  /\ pp' = [res.p EXCEPT !.rfd = FALSE, !.wfd = FALSE]
                  /\ oserr' = oserr \cup {"p_dtor_r"}
             ELSE /\ ppc' = "dtor_w"
                  /\ pp' = res.p
                  /\ oserr' = oserr
    /\ UNCHANGED <<isl, perr, pm, ss, cvars, pipe, sigterm, extClosed, hvars>>

\* ~pipe_t(): try { ...; close_w(); } catch (...) { std::exit(1); }
\* then run_evolve returns or the exception in flight reaches the caller
P_dtor_w ==
    /\ ppc = "dtor_w"
    /\ \E res \in close_w(pp) :
          /\ res.fault => CanFault
          /\ faults' = faults + (IF res.fault THEN 1 ELSE 0)
          /\ IF res.threw
             THEN /\ ppc' = "exited"
                  /\ pp' = [res.p EXCEPT !.rfd = FALSE, !.wfd = FALSE]
                  /\ oserr' = oserr \cup {"p_dtor_w"}
             ELSE /\ ppc' = (IF perr = NoError THEN "returned" ELSE "raised")
                  /\ pp' = res.p
                  /\ oserr' = oserr
    /\ UNCHANGED <<isl, perr, pm, ss, cvars, pipe, sigterm, extClosed, hvars>>

----------------------------------------------------------------------------
(* The child.                                                              *)

\* a last catch block that falls out of run_evolve instead of exiting
AfterFatal_return == "returned"

\* catch (...) { std::cerr << fatal_msg << std::endl; std::exit(1); } :
\* where the child continues after a failure while handling a failure
AfterFatal == "call_exit1"

\* the record kept of the first exception the child catches
Caught(kind, text) ==
    IF caught.kind = "none"
    THEN [kind |-> kind, text |-> text, sent |-> Len(csent)]
    ELSE caught

\* p.close_r(); in the child's try block
C_close_r ==
    /\ cpc = "close_r"
    /\ \E res \in close_r(cp) :
          /\ res.fault => CanFault
          /\ faults' = faults + (IF res.fault THEN 1 ELSE 0)
          /\ cp' = res.p
          /\ IF res.threw
             THEN /\ cexc' = ErrnoText("close")
                  /\ caught' = Caught("std", ErrnoText("close"))
                  /\ cpc' = "catch_std"
                  /\ oserr' = oserr \cup {"c_close_r"}
             ELSE /\ cpc' = "evolve"
                  /\ UNCHANGED <<cexc, caught, oserr>>
    /\ UNCHANGED <<isl, pvars, cm, cisl, cbuf, pipe, sigterm, extClosed,
                   isl0, kills, task, died, csent, cmsgs, nset>>

\* auto algo = isl.get_algorithm(); auto new_pop = algo.evolve(isl.get_population());
\* std::get<2>(m) = std::move(algo); std::get<3>(m) = std::move(new_pop);
\* The task returns, throws a std::exception carrying a text, throws
\* something else, or takes the process down.
C_evolve ==
    /\ cpc = "evolve"
    /\ \/ /\ task' = [kind |-> "ok", msg |-> << >>]
          /\ cm' = [cm EXCEPT !.algo = EvolveAlgo(cisl.algo), !.pop = EvolvePop(cisl.pop)]
          /\ cpc' = "send1_begin"
          /\ UNCHANGED <<cp, cexc, caught, died>>
       \/ \E text \in Msgs :
          /\ task' = [kind |-> "throw", msg |-> text]
          /\ cexc' = text
          /\ caught' = Caught("std", text)
          /\ cpc' = "catch_std"
          /\ UNCHANGED <<cp, cm, died>>
       \/ /\ task' = [kind |-> "throw_other", msg |-> << >>]
          /\ caught' = Caught("other", << >>)
          /\ cpc' = "catch_other"
          /\ UNCHANGED <<cp, cm, cexc, died>>
       \/ /\ task' = [kind |-> "crash", msg |-> << >>]
          /\ died' = "crash"
          /\ cpc' = "dead"
          /\ cp' = [cp EXCEPT !.rfd = FALSE, !.wfd = FALSE]
          /\ UNCHANGED <<cm, cexc, caught>>
    /\ UNCHANGED <<isl, pvars, cisl, cbuf, pipe, sigterm, faults, oserr, extClosed,
                   isl0, kills, csent, cmsgs, nset>>

\* send_message(m), first part: oarchive(ms) fills the stringstream
C_send1_begin ==
    /\ cpc = "send1_begin"
    /\ cbuf' = Encode(cm)
    /\ cmsgs' = Append(cmsgs, cm)
    /\ cpc' = "send1"
    /\ UNCHANGED <<isl, pvars, cp, cm, cisl, cexc, pipe, sigterm, faults, oserr, extClosed,
                   isl0, kills, task, caught, died, csent, nset>>

\* One iteration of while (!ss.eof()) { ss.read(buffer, sizeof(buffer));
\* write(p.write, buffer, ss.gcount()) }.  The result is the set of
\* possible outcomes of the iteration: the bytes the kernel took (the
\* return value of write is only compared with -1), whether raise_errno
\* threw, whether the process was killed by SIGPIPE, the tag of the fault.
WriteOutcomes(sfx) ==
    LET chunk == Take(cbuf, BufSize)
        n == Len(chunk)
        ok(k, tag) == [taken |-> Take(chunk, k), threw |-> FALSE, killed |-> FALSE, tag |-> tag]
        err(tag) == [taken |-> << >>, threw |-> TRUE, killed |-> FALSE, tag |-> tag]
    IN IF ~cp.wfd
       THEN { err("ebadf" \o sfx) }
       ELSE IF n = 0
       THEN { ok(0, "") }
       ELSE IF ~pp.rfd /\ ~cp.rfd
       THEN { err("epipe" \o sfx), [taken |-> << >>, threw |-> FALSE, killed |-> TRUE, tag |-> "sigpipe"] }
       ELSE { ok(n, "") : x \in { y \in {1} : Len(pipe) + n <= PipeCap } }
            \cup { ok(k, "c_short" \o sfx) : k \in { j \in 1..(n - 1) : Len(pipe) + j <= PipeCap } }
            \cup { err("c_write" \o sfx) }

\* ss.eof() after ss.read(buffer, sizeof(buffer)): set iff the stream held
\* fewer bytes than asked for
EofAfterRead == Len(cbuf) < BufSize

InjectedTags == {"c_short", "c_write", "c_short2", "c_write2"}

\* the loop of send_message(m) in the child's first try block
C_send1 ==
    /\ cpc = "send1"
    /\ \E o \in WriteOutcomes("") :
          /\ (o.tag \in InjectedTags) => CanFault
          /\ faults' = faults + (IF o.tag \in InjectedTags THEN 1 ELSE 0)
          /\ oserr' = (IF o.tag = "" THEN oserr ELSE oserr \cup {o.tag})
          /\ pipe' = pipe \o o.taken
          /\ csent' = csent \o o.taken
          /\ IF o.killed
             THEN /\ cpc' = "dead"
                  /\ died' = "sigpipe"
                  /\ cp' = [cp EXCEPT !.rfd = FALSE, !.wfd = FALSE]
                  /\ UNCHANGED <<cbuf, cexc, caught>>
             ELSE IF o.threw
             THEN /\ cexc' = ErrnoText("write")
                  /\ caught' = Caught("std", ErrnoText("write"))
                  /\ cpc' = "catch_std"
                  /\ UNCHANGED <<cbuf, cp, died>>
             ELSE /\ cbuf' = Drop(cbuf, BufSize)
                  /\ cpc' = (IF EofAfterRead THEN "close_w1" ELSE "send1")
                  /\ UNCHANGED <<cexc, caught, cp, died>>
    /\ UNCHANGED <<isl, pvars, cm, cisl, sigterm, extClosed, isl0, kills, task, cmsgs, nset>>

\* p.close_w(); in the child's first try block
C_close_w1 ==
    /\ cpc = "close_w1"
    /\ \E res \in close_w(cp) :
          /\ res.fault => CanFault
          /\ faults' = faults + (IF res.fault THEN 1 ELSE 0)
          /\ cp' = res.p
          /\ IF res.threw
             THEN /\ cexc' = ErrnoText("close")
                  /\ caught' = Caught("std", ErrnoText("close"))
                  /\ cpc' = "catch_std"
                  /\ oserr' = oserr \cup {"c_close_w"}
             ELSE /\ cpc' = "call_exit0"
                  /\ UNCHANGED <<cexc, caught, oserr>>
    /\ UNCHANGED <<isl, pvars, cm, cisl, cbuf, pipe, sigterm, extClosed,
                   isl0, kills, task, died, csent, cmsgs, nset>>

\* the handler going on without storing e.what() in the message
C_catch_std_no_text ==
    /\ cpc = "catch_std"
    /\ cpc' = "report"
    /\ UNCHANGED <<isl, pvars, cp, cm, cisl, cbuf, cexc, pipe, sigterm, faults, oserr,
                   extClosed, hvars>>

\* catch (const std::exception &e) { try { std::get<1>(m) = e.what(); }
\*                                   catch (...) { std::exit(1); } }
C_catch_std ==
    /\ cpc = "catch_std"
    /\ \/ /\ cm' = [cm EXCEPT !.err = cexc]
          /\ cpc' = "report"
          /\ UNCHANGED <<faults, oserr>>
       \/ /\ CanFault
          /\ faults' = faults + 1
          /\ oserr' = oserr \cup {"c_capture"}
          /\ cpc' = AfterFatal
          /\ cm' = cm
    /\ UNCHANGED <<isl, pvars, cp, cisl, cbuf, cexc, pipe, sigterm, extClosed, hvars>>

\* an unknown exception treated as fatal: no report is sent
C_catch_other_fatal ==
    /\ cpc = "catch_other"
    /\ cpc' = "call_exit1"
    /\ UNCHANGED <<isl, pvars, cp, cm, cisl, cbuf, cexc, pipe, sigterm, faults, oserr,
                   extClosed, hvars>>

\* catch (...) { }
C_catch_other ==
    /\ cpc = "catch_other"
    /\ cpc' = "report"
    /\ UNCHANGED <<isl, pvars, cp, cm, cisl, cbuf, cexc, pipe, sigterm, faults, oserr,
                   extClosed, hvars>>

\* the report sent without resetting the algorithm and the population
C_report_keep_fields ==
    /\ cpc = "report"
    /\ \/ /\ cm' = [cm EXCEPT !.status = 1]
          /\ cbuf' = Encode(cm')
          /\ cmsgs' = Append(cmsgs, cm')
          /\ cpc' = "send2"
          /\ UNCHANGED <<faults, oserr>>
       \/ /\ CanFault
          /\ faults' = faults + 1
          /\ oserr' = oserr \cup {"c_build"}
          /\ cm' = [cm EXCEPT !.status = 1]
          /\ cpc' = AfterFatal
          /\ UNCHANGED <<cbuf, cmsgs>>
    /\ UNCHANGED <<isl, pvars, cp, cisl, cexc, pipe, sigterm, extClosed,
                   isl0, kills, task, caught, died, csent, nset>>

\* std::get<0>(m) = 1; try { std::get<2>(m) = algorithm{};
\* std::get<3>(m) = population{}; send_message(m) ... : oarchive(ms)
C_report ==
    /\ cpc = "report"
    /\ \/ /\ cm' = [cm EXCEPT !.status = 1, !.algo = DefaultAlgo, !.pop = DefaultPop]
          /\ cbuf' = Encode(cm')
          /\ cmsgs' = Append(cmsgs, cm')
          /\ cpc' = "send2"
          /\ UNCHANGED <<faults, oserr>>
       \/ /\ CanFault
          /\ faults' = faults + 1
          /\ oserr' = oserr \cup {"c_build"}
          /\ cm' = [cm EXCEPT !.status = 1]
          /\ cpc' = AfterFatal
          /\ UNCHANGED <<cbuf, cmsgs>>
    /\ UNCHANGED <<isl, pvars, cp, cisl, cexc, pipe, sigterm, extClosed,
                   isl0, kills, task, caught, died, csent, nset>>

\* the loop of send_message(m) in the child's second try block
C_send2 ==
    /\ cpc = "send2"
    /\ \E o \in WriteOutcomes("2") :
          /\ (o.tag \in InjectedTags) => CanFault
          /\ faults' = faults + (IF o.tag \in InjectedTags THEN 1 ELSE 0)
          /\ oserr' = (IF o.tag = "" THEN oserr ELSE oserr \cup {o.tag})
          /\ pipe' = pipe \o o.taken
          /\ csent' = csent \o o.taken
          /\ IF o.killed
             THEN /\ cpc' = "dead"
                  /\ died' = "sigpipe"
                  /\ cp' = [cp EXCEPT !.rfd = FALSE, !.wfd = FALSE]
                  /\ UNCHANGED <<cbuf>>
             ELSE IF o.threw
             THEN /\ cpc' = AfterFatal
                  /\ UNCHANGED <<cbuf, cp, died>>
             ELSE /\ cbuf' = Drop(cbuf, BufSize)
                  /\ cpc' = (IF EofAfterRead THEN "close_w2" ELSE "send2")
                  /\ UNCHANGED <<cp, died>>
    /\ UNCHANGED <<isl, pvars, cm, cisl, cexc, sigterm, extClosed,
                   isl0, kills, task, caught, cmsgs, nset>>

\* the exit status made to follow the task outcome: exit(1) after a
\* failure report that was sent and closed
C_close_w2_task_status ==
    /\ cpc = "close_w2"
    /\ \E res \in close_w(cp) :
          /\ res.fault => CanFault
          /\ faults' = faults + (IF res.fault THEN 1 ELSE 0)
          /\ cp' = res.p
          /\ cpc' = "call_exit1"
          /\ oserr' = (IF res.threw THEN oserr \cup {"c_close_w2"} ELSE oserr)
    /\ UNCHANGED <<isl, pvars, cm, cisl, cbuf, cexc, pipe, sigterm, extClosed, hvars>>

\* p.close_w(); in the child's second try block
C_close_w2 ==
    /\ cpc = "close_w2"
    /\ \E res \in close_w(cp) :
          /\ res.fault => CanFault
          /\ faults' = faults + (IF res.fault THEN 1 ELSE 0)
          /\ cp' = res.p
          /\ IF res.threw
             THEN /\ cpc' = AfterFatal
                  /\ oserr' = oserr \cup {"c_close_w2"}
             ELSE /\ cpc' = "call_exit0"
                  /\ oserr' = oserr
    /\ UNCHANGED <<isl, pvars, cm, cisl, cbuf, cexc, pipe, sigterm, extClosed, hvars>>

\* std::exit(0); / std::exit(1); : the process ends, the kernel closes
\* the descriptors it still holds
C_exit ==
    /\ cpc \in {"call_exit0", "call_exit1"}
    /\ cpc' = (IF cpc = "call_exit0" THEN "exited0" ELSE "exited1")
    /\ cp' = [cp EXCEPT !.rfd = FALSE, !.wfd = FALSE]
    /\ UNCHANGED <<isl, pvars, cm, cisl, cbuf, cexc, pipe, sigterm, faults, oserr,
                   extClosed, hvars>>

----------------------------------------------------------------------------
(* The environment.                                                        *)

\* the SIGTERM sent by the parent is delivered: the child is terminated
E_sigterm ==
    /\ sigterm
    /\ ChildAlive
    /\ cpc' = "dead"
    /\ died' = "sigterm"
    /\ cp' = [cp EXCEPT !.rfd = FALSE, !.wfd = FALSE]
    /\ sigterm' = FALSE
    /\ UNCHANGED <<isl, pvars, cm, cisl, cbuf, cexc, pipe, faults, oserr, extClosed,
                   isl0, kills, task, caught, csent, cmsgs, nset>>

\* the child is taken down by a fatal signal at any point
E_fatal ==
    /\ ChildAlive
    /\ CanFault
    /\ faults' = faults + 1
    /\ cpc' = "dead"
    /\ died' = "signal"
    /\ cp' = [cp EXCEPT !.rfd = FALSE, !.wfd = FALSE]
    /\ UNCHANGED <<isl, pvars, cm, cisl, cbuf, cexc, pipe, sigterm, oserr, extClosed,
                   isl0, kills, task, caught, csent, cmsgs, nset>>

\* an external actor closes the parent's read descriptor while the parent
\* still believes it open
E_close_read ==
    /\ ppc \in {"close_w", "read", "decode", "close_r"}
    /\ pp.rfd
    /\ ~extClosed
    /\ CanFault
    /\ faults' = faults + 1
    /\ extClosed' = TRUE
    /\ pp' = [pp EXCEPT !.rfd = FALSE]
    /\ UNCHANGED <<isl, ppc, perr, pm, ss, cvars, pipe, sigterm, oserr, hvars>>

----------------------------------------------------------------------------
Next ==
    \/ P_pipe \/ P_fork \/ P_close_w \/ P_read \/ P_decode \/ P_close_r
    \/ P_kill \/ P_check \/ P_set_algorithm \/ P_set_population
    \/ P_dtor_r \/ P_dtor_w
    \/ C_close_r \/ C_evolve \/ C_send1_begin \/ C_send1 \/ C_close_w1
    \/ C_catch_std \/ C_catch_other \/ C_report \/ C_send2 \/ C_close_w2
    \/ C_exit
    \/ E_sigterm \/ E_fatal \/ E_close_read

Spec == Init /\ [][Next]_vars

----------------------------------------------------------------------------
(* Properties.                                                             *)

\* what the child computes from the island as it was at the fork
Evolved == [algo |-> EvolveAlgo(isl0.algo), pop |-> EvolvePop(isl0.pop)]

\* the OS calls issued by the parent that can be logged as failed
ParentTags == {"p_pipe", "p_fork", "p_close_w", "p_read", "p_close_r", "p_kill",
               "p_dtor_r", "p_dtor_w"}

\* C1: when the task computes without failure and no OS call fails (every
\* call returns success and every write takes the whole chunk), run_evolve
\* returns success once it ends, and whenever it has returned success the
\* island holds exactly (algorithm after evolve, evolved population) as
\* computed from the island at the fork, both setters having run once;
\* this for messages shorter than, equal to and longer than the buffer.
C1_SuccessInstallsComputedState ==
    /\ (ppc = "returned" /\ task.kind = "ok" /\ oserr = {})
          => (isl = Evolved /\ nset = 2)
    /\ (ppc \in ParentTerminal /\ task.kind = "ok" /\ faults = 0)
          => (ppc = "returned" /\ isl = Evolved)

C1_Witness ==
    /\ ppc = "returned"
    /\ task.kind = "ok"
    /\ faults = 0
    /\ Len(Encode(pm)) > BufSize
    /\ isl = Evolved
    /\ isl # isl0

\* C2: when the child catches a std::exception with text M before any byte
\* of a result was sent, and no other OS call fails, run_evolve ends by
\* raising ChildTaskFailed whose text is the fixed prefix followed by
\* exactly M, once.
C2_ChildTaskFailedCarriesM ==
    ( /\ ppc \in ParentTerminal
      /\ caught.kind = "std"
      /\ caught.sent = 0
      /\ oserr \subseteq {"c_close_r", "c_write"}
      /\ faults = Cardinality(oserr) )
    => ( /\ ppc = "raised"
         /\ perr = ChildTaskFailed(caught.text)
         /\ pm.err = caught.text )

C2_Witness ==
    /\ ppc = "raised"
    /\ task = [kind |-> "throw", msg |-> <<1, 0>>]
    /\ faults = 0
    /\ perr = ChildTaskFailed(<<1, 0>>)

\* C3: when the task throws something that is not a std::exception and no
\* OS call fails, run_evolve ends by raising ChildTaskFailed with an empty
\* text, never a SyscallFailure.
C3_UnknownFailureEmptyMessage ==
    (ppc \in ParentTerminal /\ task.kind = "throw_other" /\ faults = 0)
    => ( /\ ppc = "raised"
         /\ perr = ChildTaskFailed(<< >>)
         /\ pm.err = << >>
         /\ perr.kind # "SyscallFailure" )

C3_Witness ==
    /\ ppc = "raised"
    /\ task.kind = "throw_other"
    /\ faults = 0
    /\ perr.kind = "ChildTaskFailed"
    /\ perr.what = <<ChildErrPrefix>>

\* C4: the island is written only by the two setters of the parent, each
\* at most once, and only after a complete message with status 0 was
\* decoded; whenever run_evolve raised an error or the parent exited, the
\* island is as it was before the call.
C4_IslandWrittenOnlyOnSuccess ==
    /\ nset <= 2
    /\ (nset = 0) => (isl = isl0)
    /\ (nset > 0) => ( /\ ppc \in {"set_population", "dtor_r", "dtor_w", "returned"}
                       /\ perr = NoError
                       /\ DecodeOk(ss)
                       /\ pm = Decode(ss)
                       /\ pm.status = 0
                       /\ isl.algo = pm.algo
                       /\ (nset = 2 => isl.pop = pm.pop) )
    /\ (ppc \in {"raised", "exited"}) => (nset = 0 /\ isl = isl0)

C4_Witness ==
    /\ ppc = "raised"
    /\ perr.kind = "ChildTaskFailed"
    /\ task.kind = "throw"
    /\ isl = isl0
    /\ nset = 0

\* C5: whenever run_evolve has returned to its caller in the parent, with
\* success or with an error, neither descriptor of the pipe is open in the
\* parent.
C5_NoDescriptorLeftOpen ==
    (ppc \in {"returned", "raised"}) => (~pp.rfd /\ ~pp.wfd)

C5_Witness ==
    /\ ppc = "raised"
    /\ perr = SyscallFailure("close")
    /\ "p_close_r" \in oserr
    /\ ~pp.rfd
    /\ ~pp.wfd

\* C6: when the child has died before the bytes it sent form a complete
\* message, the parent is not blocked in its read, never returns success,
\* and, unless one of its own OS calls fails, ends by raising the decode
\* error to its caller (it does not exit).
C6_ChildDeathBecomesError ==
    (cpc = "dead" /\ ~DecodeOk(csent))
    => ( /\ ppc # "returned"
         /\ nset = 0
         /\ (ppc = "read") => ENABLED P_read
         /\ (ppc \in ParentTerminal /\ oserr \cap ParentTags = {} /\ ~extClosed)
               => (ppc = "raised" /\ perr = DecodeFailure) )

C6_Witness ==
    /\ cpc = "dead"
    /\ died = "crash"
    /\ ~DecodeOk(csent)
    /\ ppc = "raised"
    /\ perr = DecodeFailure

\* C7: whenever run_evolve has returned to its caller, with success or
\* with ChildTaskFailed, the child has terminated (stated for the runs in
\* which no fault is injected, where the claim already fails).
C7_ChildTerminatedAtReturn ==
    (faults = 0 /\ (ppc = "returned" \/ (ppc = "raised" /\ perr.kind = "ChildTaskFailed")))
    => (cpc \in ChildTerminal)

\* C8: whenever the child has caught an exception (it entered its failure
\* path), the parent does not return success and installs nothing.
C8_ChildFailureNeverLost ==
    (caught.kind # "none") => (ppc # "returned" /\ nset = 0)

\* C9: when an external actor has closed the parent's read end (and the
\* environment injects no other fault), run_evolve ends by raising an error
\* to its caller with no descriptor left open (it does not terminate the
\* parent).
C9_ExternalCloseStillRaises ==
    (extClosed /\ faults = 1 /\ ppc \in ParentTerminal)
    => (ppc = "raised" /\ ~pp.rfd /\ ~pp.wfd)

\* the positions of the child inside the else branch of run_evolve
ChildPositions ==
    {"close_r", "evolve", "send1_begin", "send1", "close_w1", "catch_std",
     "catch_other", "report", "send2", "close_w2", "call_exit0", "call_exit1"}

\* C10: the child never returns from run_evolve: while it lives it is
\* inside the child branch, and when it is at none of the try blocks any
\* more it is at a call of std::exit.
C10_ChildNeverReturns ==
    /\ cpc # "returned"
    /\ ChildAlive => cpc \in ChildPositions
    /\ (cpc \in {"exited0", "exited1"}) => (died = "no")

C10_Witness ==
    /\ cpc = "exited1"
    /\ "c_write2" \in oserr

\* a is an initial segment of b
IsPrefix(a, b) == Len(a) <= Len(b) /\ a = SubSeq(b, 1, Len(a))

\* C11: the bytes the child has written to the pipe are (an initial
\* segment of) the encoding of one of the messages it handed to
\* send_message, never bytes of a first message followed by bytes of a
\* second (stated for the runs in which every write took its whole chunk).
C11_OneMessagePerPipe ==
    (oserr \cap {"c_short", "c_short2"} = {})
    => \/ csent = << >>
       \/ \E i \in 1..Len(cmsgs) : IsPrefix(csent, Encode(cmsgs[i]))

\* C12: when no write reported an error, the child sent one message, closed
\* its write end and the parent has read end-of-channel, the bytes the
\* parent accumulated are exactly the encoded message, whatever number of
\* bytes each write reported as accepted.
C12_SenderSendsWholeBuffer ==
    ( /\ ppc = "decode"
      /\ Len(cmsgs) = 1
      /\ cpc \in {"call_exit0", "exited0"}
      /\ oserr \subseteq {"c_short"} )
    => (ss = Encode(cmsgs[1]))

\* the positions the parent reaches only through a zero-byte read
AfterEof == {"decode", "close_r", "check", "set_algorithm", "set_population"}

\* C13: the parent reads only with its own write end closed; it leaves the
\* read loop for the decode only through a read that finds the pipe empty
\* and no write end open in either process; at that point it holds every
\* byte the child wrote, a living child is past its close of the write end
\* (at its exit call, or handling the error a close reported while the
\* descriptor was released), and the child writes no byte afterwards.
C13_EofAfterWritersClosed ==
    /\ [](ppc \in {"read", "decode"} => (~pp.w_status /\ ~pp.wfd))
    /\ [][(ppc # "decode" /\ ppc' = "decode") =>
            (ppc = "read" /\ pipe = << >> /\ ~pp.wfd /\ ~cp.wfd /\ ss' = ss)]_vars
    /\ [](ppc = "decode" =>
            ( /\ pipe = << >>
              /\ ~cp.wfd
              /\ ss = csent
              /\ ChildAlive => \/ cpc \in {"call_exit0", "call_exit1"}
                               \/ "c_close_w" \in oserr ))
    /\ [][(ppc \in AfterEof) => (csent' = csent)]_vars

C13_Witness ==
    /\ ppc = "decode"
    /\ cpc = "call_exit0"
    /\ csent # << >>
    /\ ss = csent

\* the errors raised by a step of the parent's receive sequence
ReceiveError(e) ==
    \/ e.kind = "DecodeFailure"
    \/ (e.kind = "SyscallFailure" /\ e.call \in {"close", "read"})

ChildDoubleFaults == {"c_capture", "c_build", "c_write2", "c_close_w2", "ebadf2", "epipe2"}

\* failures of the parent while it handles a failure or cleans up
ParentDoubleFaults == {"p_kill", "p_dtor_r", "p_dtor_w"}

\* C15: after a double fault the process concerned is at std::exit(1) or
\* terminated and run_evolve never returns or raises to a caller in it:
\* the child after a failure of the capture or of the second try block,
\* the parent after a kill failure other than ESRCH or a failed close in
\* ~pipe_t.
C15_DoubleFaultTerminates ==
    /\ (oserr \cap ChildDoubleFaults # {})
          => (cpc \in {"call_exit1", "exited1", "dead"})
    /\ (oserr \cap ParentDoubleFaults # {})
          => (ppc = "exited" /\ ~pp.rfd /\ ~pp.wfd)

C15_Witness ==
    /\ ppc = "exited"
    /\ "p_dtor_r" \in oserr
    /\ cpc = "exited1"
    /\ "c_write2" \in oserr

\* C16: the child calls std::exit(0) exactly when it handed a message
\* (status 0 or 1) to send_message and its close of the write end
\* succeeded, whatever the task outcome; it calls std::exit(1) only after a
\* failure of the capture of e.what() or of the report (second try block).
C16_ExitStatusIsProcessHealth ==
    /\ (cpc \in {"call_exit0", "exited0"})
          => (~cp.w_status /\ Len(cmsgs) >= 1 /\ oserr \cap ChildDoubleFaults = {})
    /\ (cpc \in {"call_exit0", "call_exit1", "exited0", "exited1"} /\ ~cp.w_status)
          => (cpc \in {"call_exit0", "exited0"} /\ Len(cmsgs) >= 1)
    /\ (cpc \in {"call_exit1", "exited1"})
          => (oserr \cap ChildDoubleFaults # {} /\ caught.kind # "none")

C16_Witness ==
    /\ cpc = "exited0"
    /\ task.kind = "throw"
    /\ Len(cmsgs) = 1
    /\ cmsgs[1].status = 1
    /\ ~cp.w_status

\* the invariant of the wire message
WireInvariant(ms) ==
    /\ ms.status \in {0, 1}
    /\ (ms.status = 0) => (ms.err = << >> /\ ms.algo = Evolved.algo /\ ms.pop = Evolved.pop)
    /\ (ms.status # 0) => (ms.algo = DefaultAlgo /\ ms.pop = DefaultPop)

\* C17: every message the child hands to send_message has status 0, an
\* empty text and the computed algorithm and population, or status 1 and
\* the default-constructed algorithm and population; also for the report
\* sent after the result had been packed into m.
C17_WireMessageInvariant ==
    \A i \in 1..Len(cmsgs) : WireInvariant(cmsgs[i])

C17_Witness ==
    /\ Len(cmsgs) = 2
    /\ cmsgs[1].status = 0
    /\ cmsgs[1].pop # DefaultPop
    /\ cmsgs[2].status = 1
    /\ cmsgs[2].pop = DefaultPop
    /\ cmsgs[2].err # << >>

\* C18: in each process a flag that says closed means the descriptor is
\* closed; the parent reads only while its read flag says open and the
\* child writes only while its write flag says open; and once a flag says
\* closed it stays so and no further close, read or write is issued on
\* that end (no such call is logged and no byte is written), on every
\* path including the catch blocks and ~pipe_t.
C18_ClosedEndNeverUsedAgain ==
    /\ []( /\ (~pp.r_status => ~pp.rfd) /\ (~pp.w_status => ~pp.wfd)
           /\ (~cp.r_status => ~cp.rfd) /\ (~cp.w_status => ~cp.wfd) )
    /\ [](ppc = "read" => pp.r_status)
    /\ [](cpc \in {"send1", "send2"} => cp.w_status)
    /\ [][(ppc # "pipe" /\ ~pp.r_status) =>
            ( /\ ~pp'.r_status
              /\ ss' = ss
              /\ oserr' \cap {"p_close_r", "p_dtor_r", "p_read"}
                    = oserr \cap {"p_close_r", "p_dtor_r", "p_read"} )]_vars
    /\ [][(ppc # "pipe" /\ ~pp.w_status) =>
            ( /\ ~pp'.w_status
              /\ oserr' \cap {"p_close_w", "p_dtor_w"} = oserr \cap {"p_close_w", "p_dtor_w"} )]_vars
    /\ [][(cpc # "none" /\ ~cp.r_status) =>
            ( /\ ~cp'.r_status
              /\ oserr' \cap {"c_close_r"} = oserr \cap {"c_close_r"} )]_vars
    /\ [][(cpc # "none" /\ ~cp.w_status) =>
            ( /\ ~cp'.w_status
              /\ csent' = csent
              /\ oserr' \ {"p_close_w", "p_read", "p_close_r", "p_kill", "p_dtor_r", "p_dtor_w"}
                    = oserr \ {"p_close_w", "p_read", "p_close_r", "p_kill", "p_dtor_r", "p_dtor_w"} )]_vars

C18_Witness ==
    /\ ppc = "dtor_w"
    /\ perr.kind = "ChildTaskFailed"
    /\ ~pp.r_status
    /\ ~pp.w_status
    /\ cpc = "exited0"
    /\ ~cp.r_status
    /\ ~cp.w_status

\* C19: after a failed fork there is no child, the parent is unwinding
\* with SyscallFailure naming fork (or has raised it, or has exited in
\* ~pipe_t), it has read nothing and called kill never, the island is
\* unchanged, and when the error has reached the caller both ends of the
\* pipe are closed.
C19_ForkFailureStops ==
    ("p_fork" \in oserr)
    => ( /\ cpc = "none"
         /\ perr = SyscallFailure("fork")
         /\ ppc \in {"dtor_r", "dtor_w", "raised", "exited"}
         /\ ss = << >>
         /\ "p_read" \notin oserr
         /\ kills = 0
         /\ ~sigterm
         /\ isl = isl0
         /\ nset = 0
         /\ (ppc = "raised") => (~pp.rfd /\ ~pp.wfd /\ ~pp.r_status /\ ~pp.w_status)
         /\ (ppc = "exited") => (oserr \cap {"p_dtor_r", "p_dtor_w"} # {}) )

C19_Witness ==
    /\ "p_fork" \in oserr
    /\ ppc = "raised"
    /\ perr = SyscallFailure("fork")
    /\ ~pp.rfd
    /\ ~pp.wfd

----------------------------------------------------------------------------
(* Liveness.  Both processes are scheduled by the kernel: a process that   *)
(* can take a step eventually takes one, and a signal that was sent is     *)
(* eventually delivered.                                                   *)

ParentStep ==
    \/ P_pipe \/ P_fork \/ P_close_w \/ P_read \/ P_decode \/ P_close_r
    \/ P_kill \/ P_check \/ P_set_algorithm \/ P_set_population
    \/ P_dtor_r \/ P_dtor_w

ChildStep ==
    \/ C_close_r \/ C_evolve \/ C_send1_begin \/ C_send1 \/ C_close_w1
    \/ C_catch_std \/ C_catch_other \/ C_report \/ C_send2 \/ C_close_w2
    \/ C_exit

FairSpec ==
    /\ Init
    /\ [][Next]_vars
    /\ WF_vars(ParentStep)
    /\ WF_vars(ChildStep)
    /\ WF_vars(E_sigterm)

\* C20: under fair scheduling the parent's run_evolve eventually returns,
\* raises or exits, and the child, if one was forked, eventually
\* terminates: neither stays blocked in read or write for ever.  While
\* either process is still running, some step that is not an injected
\* fault is possible (the exchange never waits for a fault to go on).
C20_ExchangeTerminates ==
    /\ <>[](ppc \in ParentTerminal /\ cpc \in ({"none"} \cup ChildTerminal))
    /\ []((ppc \notin ParentTerminal \/ ChildAlive) => ENABLED (Next /\ faults' = faults))

\* the child waits in write for room in the pipe while the parent is in
\* its read loop
C20_Witness ==
    /\ ppc = "read"
    /\ cpc = "send1"
    /\ cbuf # << >>
    /\ Len(pipe) + Min(BufSize, Len(cbuf)) > PipeCap

====
